---- MODULE Spec2Model ----
(***************************************************************************)
(* Model of src/src/play/player_disp.cc (Cytosim, class Player): style     *)
(* switching, label and report composition, frame preparation and the      *)
(* magnified image capture that runs under the simulation worker's lock.   *)
(*                                                                         *)
(* Text is modelled as a sequence of one-character strings, so that the    *)
(* formatting done by the code (decimal output, fixed precision, padding,  *)
(* substring extraction) is computed and not assumed.                      *)
(***************************************************************************)
EXTENDS Integers, Sequences, FiniteSets, TLC

VARIABLES
    mDisplay,        \* Player::mDisplay: NoDisplay or the variant constructed
    DP_style,        \* DP.style
    attribDepth,     \* glPushAttrib minus glPopAttrib issued by setStyle
    styleCall,       \* pushes and pops issued by the last setStyle call
    lockOwner,       \* owner of the worker's mutex: "free" or "render"
    simTime,         \* simul.time() in thousandths; advanced by the worker
    handle,          \* thread.handle(): the mouse-controlled Single
    threadAlive,     \* thread.alive()
    goLive,          \* Player::goLive
    PP_period,       \* PP.period
    currentFrame,    \* thread.currentFrame()
    PP_report,       \* PP.report
    DP_point_value,  \* DP.point_value
    spaces,          \* max_extension() of every Space of simul.spaces
    view,            \* the View handed to prepareDisplay / current view
    pixelFactors,    \* arguments of the last mDisplay->setPixelFactors
    prepLog,         \* number of "Error in prepareDisplay" lines (0 or 1 per frame)
    label,           \* result of the last buildLabel call
    rep,             \* record of the last buildReport call
    pc,              \* position of the render thread inside saveViewMagnified
    call,            \* record of the current / last saveViewMagnified call
    cwd,             \* the working directory of the process
    PP_image_dir,    \* PP.image_dir
    PP_image_format, \* PP.image_format
    display_fresh,   \* simul.prop->display_fresh
    exp,             \* record of the current / last export by root and index
    scene            \* record of the last displayScene call

styleVars == <<mDisplay, DP_style, attribDepth, styleCall>>
simVars   == <<lockOwner, simTime>>
labelIn   == <<handle, threadAlive, goLive, PP_period, currentFrame>>
confVars  == <<PP_report, DP_point_value, spaces>>
dispVars  == <<view, pixelFactors, prepLog>>
extVars   == <<cwd, PP_image_dir, PP_image_format, display_fresh, exp, scene>>
vars == <<mDisplay, DP_style, attribDepth, styleCall, lockOwner, simTime,
          handle, threadAlive, goLive, PP_period, currentFrame, PP_report,
          DP_point_value, spaces, view, pixelFactors, prepLog, label, rep,
          pc, call, cwd, PP_image_dir, PP_image_format, display_fresh, exp,
          scene>>

----------------------------------------------------------------------------
(* Bounds of the model *)

MaxTime == 2          \* the worker advances simTime up to this value
MaxDraws == 2         \* draw-callback invocations per capture pass
MaxMag == 2           \* magnifications 1..MaxMag
MaxDown == 2          \* downsample factors 1..MaxDown
MaxStyle == 4         \* style ids -1..MaxStyle
MaxPeriod == 2        \* PP.period in 0..MaxPeriod
MaxFrame == 1         \* thread.currentFrame() in -1..MaxFrame
MaxAuto == 2          \* view.auto_scale starts in 0..MaxAuto
MaxExt == 2           \* Space::max_extension() in -1..MaxExt
MaxExports == 1       \* exports by root and index per behaviour
MaxScenes == 3        \* displayScene calls per behaviour

----------------------------------------------------------------------------
(* Text helpers: what std::ostream and std::string do in the code *)

Digits == <<"0", "1", "2", "3", "4", "5", "6", "7", "8", "9">>

Digit(d) == Digits[d + 1]

RECURSIVE Dec(_)
\* operator<<(unsigned): decimal digits, no padding
Dec(n) == IF n < 10 THEN <<Digit(n)>> ELSE Dec(n \div 10) \o <<Digit(n % 10)>>

\* operator<<(int)
DecInt(i) == IF i < 0 THEN <<"-">> \o Dec(0 - i) ELSE Dec(i)

\* operator<<(double) under std::fixed and precision(3); m is in thousandths
Fixed3(m) ==
    Dec(m \div 1000) \o <<".">> \o
    <<Digit((m \div 100) % 10), Digit((m \div 10) % 10), Digit(m % 10)>>

RECURSIVE Spaces(_)
Spaces(n) == IF n <= 0 THEN <<>> ELSE <<" ">> \o Spaces(n - 1)

\* std::setw(w): pad on the left with spaces, never truncate
SetW(w, s) == Spaces(w - Len(s)) \o s

\* TRUE iff pat occurs in text as a contiguous substring
Contains(text, pat) ==
    \E i \in 1..(Len(text) - Len(pat) + 1) :
        SubSeq(text, i, i + Len(pat) - 1) = pat

\* std::string::find(c): first position of c (1-based), 0 for npos
Find(text, c) ==
    IF \E i \in 1..Len(text) : text[i] = c
    THEN CHOOSE i \in 1..Len(text) :
            text[i] = c /\ \A j \in 1..(i - 1) : text[j] # c
    ELSE 0

StrLive   == <<"L", "i", "v", "e">>
StrFrame  == <<"F", "r", "a", "m", "e">>
StrHandle == <<"\n", "H", "a", "n", "d", "l", "e", ":", " ">>

----------------------------------------------------------------------------
(* Player::setStyle *)

NoDisplay == "nullptr"

\* faulty variant: the default branch constructs the third variant
StyleVariant_defaultIs3(style) ==
    CASE style = 1 -> "Display1"
      [] style = 2 -> "Display2"
      [] OTHER     -> "Display3"

\* switch ( style ): default and case 1 share Display1
StyleVariant(style) ==
    CASE style = 2 -> "Display2"
      [] style = 3 -> "Display3"
      [] OTHER     -> "Display1"

\* faulty variant: the previous OpenGL state is never restored
PopsOnEntry_never(disp) == 0

\* if ( mDisplay ) { glPopAttrib(); delete(mDisplay); mDisplay = nullptr; }
PopsOnEntry(disp) == IF disp # NoDisplay THEN 1 ELSE 0

StyleIds == (0 - 1)..MaxStyle

\* DP.style = style;
RecordedStyle(style) == style

\* setStyle runs on the render thread, outside any capture
setStyle(style) ==
    /\ pc = "idle"
    /\ LET pops == PopsOnEntry(mDisplay)
       IN /\ attribDepth' = attribDepth - pops + 1
          /\ styleCall' = [pops |-> pops, pushes |-> 1,
                           active |-> (mDisplay # NoDisplay), id |-> style]
    /\ mDisplay' = StyleVariant(style)
    /\ DP_style' = RecordedStyle(style)
    /\ UNCHANGED <<simVars, labelIn, confVars, extVars, dispVars, label, rep, pc, call>>

----------------------------------------------------------------------------
(* Player::buildLabel *)

\* faulty variant: the frame index is appended in both branches
buildLabel_noElse(time, sh, alive, live, period, frame) ==
    SetW(8, Fixed3(time)) \o <<"s">>
    \o (IF sh.exists /\ sh.attached
        THEN StrHandle \o Fixed3(sh.force) \o <<"p", "N">> ELSE <<>>)
    \o (IF alive /\ live
        THEN <<"\n">> \o StrLive \o
             (IF period > 1 THEN <<" ">> \o Dec(period) ELSE <<>>)
        ELSE <<>>)
    \o <<"\n">> \o StrFrame \o <<" ">> \o DecInt(frame)

buildLabel(time, sh, alive, live, period, frame) ==
    SetW(8, Fixed3(time)) \o <<"s">>
    \o (IF sh.exists /\ sh.attached
        THEN StrHandle \o Fixed3(sh.force) \o <<"p", "N">> ELSE <<>>)
    \o (IF alive /\ live
        THEN <<"\n">> \o StrLive \o
             (IF period > 1 THEN <<" ">> \o Dec(period) ELSE <<>>)
        ELSE <<"\n">> \o StrFrame \o <<" ">> \o DecInt(frame))

\* the label of the current session state
CurrentLabel ==
    buildLabel(simTime, handle, threadAlive, goLive, PP_period, currentFrame)

\* a call of buildLabel by itself
BuildLabelCall ==
    /\ pc = "idle"
    /\ label' = CurrentLabel
    /\ UNCHANGED <<styleVars, simVars, labelIn, confVars, extVars, dispVars, rep, pc, call>>

----------------------------------------------------------------------------
(* Player::buildReport *)

\* e.what() of the Exception thrown by Glossary::read_string
ParseError == <<"b", "a", "d">>

\* e.what() of the Exception thrown by Simul::report
ReportError == <<"e", "r", "r">>

\* what simul.report may write into the stream
ReportTexts ==
    { <<>>, <<"\n">>, <<"a">>, <<"\n", "a">>, <<"\n", "\n", "a">> }

\* outcome of glos.read_string on the options tail: TRUE iff it throws
ParseOutcomes == BOOLEAN

\* outcome of simul.report: it throws, or it writes one of ReportTexts
ReportOutcomes ==
    { [throws |-> TRUE, text |-> <<>>] } \cup
    { [throws |-> FALSE, text |-> t] : t \in ReportTexts }

\* faulty variant: the guard on the empty expression is dropped
ReportRequested_always(arg) == TRUE

\* if ( ! arg.empty() )
ReportRequested(arg) == arg # <<>>

\* res.size() > 1 && res.at(0) == '\n' ? res.substr(1) : res
StripNewline(res) ==
    IF Len(res) > 1 /\ res[1] = "\n" THEN SubSeq(res, 2, Len(res)) ELSE res

\* buildReport(arg) when the parser behaves as p and the report as r.
\* outcome "raised": an Exception leaves buildReport (text is then unused).
buildReport(arg, p, r) ==
    IF ReportRequested(arg)
    THEN LET pos  == Find(arg, " ")
             kind == IF pos # 0 THEN SubSeq(arg, 1, pos - 1) ELSE arg
             base == [arg |-> arg, kind |-> kind, parsed |-> (pos # 0)]
         IN IF pos # 0 /\ p
            THEN \* glos.read_string stands before the try block
                 base @@ [outcome |-> "raised", raw |-> <<>>,
                          text |-> <<>>, reported |-> FALSE,
                          failed |-> TRUE, failure |-> ParseError]
            ELSE IF r.throws
                 THEN \* catch ( Exception & e ) return e.what();
                      base @@ [outcome |-> "returned", raw |-> <<>>,
                               text |-> ReportError,
                               reported |-> TRUE, failed |-> TRUE,
                               failure |-> ReportError]
                 ELSE base @@ [outcome |-> "returned", raw |-> r.text,
                               text |-> StripNewline(r.text),
                               reported |-> TRUE, failed |-> FALSE,
                               failure |-> <<>>]
    ELSE [arg |-> arg, kind |-> <<>>, parsed |-> FALSE, outcome |-> "returned",
          raw |-> <<>>, text |-> <<>>, reported |-> FALSE, failed |-> FALSE, failure |-> <<>>]

NoReport ==
    [arg |-> <<>>, kind |-> <<>>, parsed |-> FALSE, outcome |-> "none",
     raw |-> <<>>, text |-> <<>>, reported |-> FALSE, failed |-> FALSE, failure |-> <<>>]

\* report expressions: empty, a kind alone, a kind with an options tail
ReportExprs == { <<>>, <<"f">>, <<"f", " ", "x">> }

\* a call of buildReport by itself, with any of the expressions
BuildReportCall(arg, p, r) ==
    /\ pc = "idle"
    /\ rep' = buildReport(arg, p, r)
    /\ UNCHANGED <<styleVars, simVars, labelIn, confVars, extVars, dispVars, label, pc, call>>

----------------------------------------------------------------------------
(* Player::autoScale, Player::autoTrack, Player::prepareDisplay *)

\* rad = max over the spaces of max_extension(), starting from 0
MaxExtension(S) ==
    IF \E e \in S : e > 0 THEN CHOOSE e \in S : \A f \in S : f <= e ELSE 0

\* faulty variant: the auto-scale counter is left alone
autoScale_noDecrement(S, v) ==
    LET rad == MaxExtension(S)
    IN IF rad > 0
       THEN [v EXCEPT !.view_size = 2 * rad, !.zoomIns = @ + 1]
       ELSE v

autoScale(S, v) ==
    LET rad == MaxExtension(S)
    IN IF rad > 0
       THEN [v EXCEPT !.view_size = 2 * rad,
                      !.zoomIns = @ + 1,
                      !.auto_scale = @ - 1]
       ELSE v

\* view.track_fibers & b, for b a power of two
Bit(n, b) == (n \div b) % 2 = 1

\* bit 1: view.move_shift(G), G the centroid from FiberSet::infoPosition
Recenter(v) ==
    [v EXCEPT !.focus = "centroid", !.tracked = Append(@, "recenter")]

\* bit 2: view.align_with(vec), vec from FiberSet::infoNematic
AlignNematic(v) ==
    [v EXCEPT !.rotation = "aligned(nematic)", !.tracked = Append(@, "align")]

\* bit 4: view.rotation.setFromMatrix3(vec); view.rotation.conjugate();
\* vec from FiberSet::infoComponents
RotateMoments(v) ==
    [v EXCEPT !.rotation = "conjugate(moments)",
              !.tracked = Append(@, "rotate")]

\* faulty variant: the rotation from the moments is set before the alignment
autoTrack_rotateFirst(v) ==
    LET v0 == [v EXCEPT !.tracked = <<>>]
        v1 == IF Bit(v0.track_fibers, 1) THEN Recenter(v0) ELSE v0
        v2 == IF Bit(v1.track_fibers, 4) THEN RotateMoments(v1) ELSE v1
    IN IF Bit(v2.track_fibers, 2) THEN AlignNematic(v2) ELSE v2

\* the results of FiberSet::infoPosition, infoNematic and infoComponents are
\* kept symbolic: the centroid, the nematic axis, the moment matrix;
\* tracked lists the actions of the call in the order they fired
autoTrack(v) ==
    LET v0 == [v EXCEPT !.tracked = <<>>]
        v1 == IF Bit(v0.track_fibers, 1) THEN Recenter(v0) ELSE v0
        v2 == IF Bit(v1.track_fibers, 2) THEN AlignNematic(v1) ELSE v1
    IN IF Bit(v2.track_fibers, 4) THEN RotateMoments(v2) ELSE v2

\* faulty variant: auto-scale runs whatever the counter
AutoScaleWanted_always(v) == TRUE

\* if ( view.auto_scale > 0 )
AutoScaleWanted(v) == v.auto_scale > 0

\* prepareDisplay(view, mag) with DP.point_value = point_value, the parser
\* behaving as p, the report as r, and the style's preparation throwing iff s.  raised: an Exception of
\* buildReport leaves prepareDisplay after the label has been set.
prepareDisplay(v, mag, point_value, p, r, s) ==
    LET v1 == IF AutoScaleWanted(v) THEN autoScale(spaces, v) ELSE v
        v2 == IF v1.track_fibers # 0 THEN autoTrack(v1) ELSE v1
        lab == CurrentLabel
        v3 == [v2 EXCEPT !.label = lab]
        b  == buildReport(PP_report, p, r)
    IN IF b.outcome = "raised"
       THEN [raised |-> TRUE, view |-> v3, label |-> lab, rep |-> b,
             pixelFactors |-> pixelFactors, prepLog |-> prepLog]
       ELSE [raised |-> FALSE,
             view |-> [v3 EXCEPT !.message = b.text],
             label |-> lab, rep |-> b,
             pixelFactors |-> [unit |-> IF point_value > 0
                                        THEN "world" ELSE "pixel",
                               mag |-> mag],
             prepLog |-> IF s THEN 1 ELSE 0]

----------------------------------------------------------------------------
(* The simulation worker and its lock (SimThread) *)

\* faulty variant: lock() returns without taking the mutex
thread_lock_skipped(owner) == owner

\* thread.lock(): the caller becomes the owner of the mutex
thread_lock(owner) == "render"

\* thread.unlock()
thread_unlock(owner) == "free"

\* one step of the worker: it takes the lock, advances the simulation and
\* releases the lock; it cannot run while the render thread holds the lock
WorkerStep ==
    /\ threadAlive
    /\ lockOwner = "free"
    /\ simTime < MaxTime
    /\ simTime' = simTime + 1
    /\ UNCHANGED <<styleVars, lockOwner, labelIn, confVars, extVars, dispVars, label,
                   rep, pc, call>>

----------------------------------------------------------------------------
(* Player::saveViewMagnified(mag, name, format, downsample) *)

Formats == {"png", "ppm", "gif"}

\* SaveImage::supported(format)
supported(format) == format \in {"png", "ppm"}

\* faulty variant: the format is never rejected
FormatRejected_never(format) == FALSE

\* if ( !SaveImage::supported(format) ) return -1;
FormatRejected(format) == ~ supported(format)

\* error codes of SaveImage::saveMagnifiedImage and saveCompositeImage
DirectErrs == {0, 1}
CompositeErrs == {0, 2}

\* faulty variant: the composite capture is attempted whatever the direct one did
CompositeNeeded_always(err) == TRUE

\* if ( err ) { err = SaveImage::saveCompositeImage(...); ... }
CompositeNeeded(err) == err # 0

\* printf("saved %ix%i ...", mag*W/downsample, mag*H/downsample, name)
DirectDims(mag, W, H, ds) == <<(mag * W) \div ds, (mag * H) \div ds>>

\* printf("saved %ix%i ...", W, H, name) after the composite capture
CompositeDims(mag, W, H, ds) == <<W, H>>

NoDims == <<0, 0>>

NoCall ==
    [outcome |-> "none", mag |-> 1, format |-> "png", ds |-> 1, W |-> 0, H |-> 0,
     ret |-> 0, locks |-> 0, unlocks |-> 0, prepared |-> FALSE, opened |-> 0,
     closed |-> 0, directTried |-> FALSE, directErr |-> 0,
     compTried |-> FALSE, compErr |-> 0, draws |-> 0, passDraws |-> 0,
     seen |-> {}, path |-> "none", dims |-> NoDims]

\* entry of the call, made at position from: format check, then thread.lock()
SVM_Enter(from, mag, format, ds) ==
    /\ pc = from
    /\ mDisplay # NoDisplay
    /\ LET c == [NoCall EXCEPT !.mag = mag, !.format = format, !.ds = ds,
                               !.W = view.width, !.H = view.height]
       IN IF FormatRejected(format)
          THEN /\ call' = [c EXCEPT !.outcome = "returned", !.ret = 0 - 1]
               /\ pc' = "idle"
               /\ UNCHANGED lockOwner
          ELSE /\ lockOwner = "free"
               /\ lockOwner' = thread_lock(lockOwner)
               /\ call' = [c EXCEPT !.outcome = "running", !.locks = 1]
               /\ pc' = "prepare"
    /\ UNCHANGED <<styleVars, simTime, labelIn, confVars, dispVars, label, rep>>

\* a call of the name-and-format overload by itself
SVM_Begin(mag, format, ds) ==
    /\ SVM_Enter("idle", mag, format, ds)
    /\ UNCHANGED extVars

\* prepareDisplay(view, mag); view.openDisplay(); entry of saveMagnifiedImage
SVM_Prepare(p, r, s) ==
    /\ pc = "prepare"
    /\ LET d == prepareDisplay(view, call.mag, DP_point_value, p, r, s)
       IN /\ label' = d.label
          /\ rep' = d.rep
          /\ pixelFactors' = d.pixelFactors
          /\ prepLog' = d.prepLog
          /\ IF d.raised
             THEN \* the Exception leaves saveViewMagnified
                  /\ view' = d.view
                  /\ call' = [call EXCEPT !.outcome = "raised"]
                  /\ pc' = "idle"
             ELSE /\ view' = [d.view EXCEPT !.open = TRUE]
                  /\ call' = [call EXCEPT !.prepared = TRUE, !.opened = @ + 1,
                                          !.directTried = TRUE]
                  /\ pc' = "direct"
    /\ UNCHANGED <<styleVars, simVars, labelIn, confVars, extVars>>

\* displayMagnified -> displayCytosim: one invocation of the draw callback,
\* which reads the simulation state
SVM_Draw ==
    /\ pc \in {"direct", "composite"}
    /\ call.passDraws < MaxDraws
    /\ call' = [call EXCEPT !.draws = @ + 1, !.passDraws = @ + 1,
                            !.seen = @ \cup {simTime}]
    /\ UNCHANGED <<styleVars, simVars, labelIn, confVars, extVars, dispVars, label, rep, pc>>

\* view.closeDisplay(); thread.unlock(); return err;
SVM_Finish(c, err) ==
    /\ view' = [view EXCEPT !.open = FALSE]
    /\ lockOwner' = thread_unlock(lockOwner)
    /\ call' = [c EXCEPT !.closed = @ + 1, !.unlocks = @ + 1,
                         !.outcome = "returned", !.ret = err]
    /\ pc' = "idle"

\* saveMagnifiedImage returns err
SVM_DirectDone(err) ==
    /\ pc = "direct"
    /\ LET c == [call EXCEPT !.directErr = err]
       IN IF CompositeNeeded(err)
          THEN /\ call' = [c EXCEPT !.compTried = TRUE, !.passDraws = 0]
               /\ pc' = "composite"
               /\ UNCHANGED <<view, lockOwner>>
          ELSE SVM_Finish([c EXCEPT !.path = "direct",
                                    !.dims = DirectDims(c.mag, c.W, c.H, c.ds)],
                          err)
    /\ UNCHANGED <<styleVars, simTime, labelIn, confVars, extVars, pixelFactors, prepLog,
                   label, rep>>

\* saveCompositeImage returns err
SVM_CompositeDone(err) ==
    /\ pc = "composite"
    /\ LET c == [call EXCEPT !.compErr = err]
       IN SVM_Finish(IF err = 0
                     THEN [c EXCEPT !.path = "composite",
                                    !.dims = CompositeDims(c.mag, c.W, c.H, c.ds)]
                     ELSE c,
                     err)
    /\ UNCHANGED <<styleVars, simTime, labelIn, confVars, extVars, pixelFactors, prepLog,
                   label, rep>>

----------------------------------------------------------------------------
(* Export by root and index: Player::saveView and the path-and-index
   overload of Player::saveViewMagnified *)

\* INT_MAX: the index is an unsigned that "%04i" prints as an int
IntMax == 2147483647

\* an unsigned index is top * 2^31 + low, top in {0, 1}, low in 0..IntMax
Indexes ==
    { [top |-> 0, low |-> n] : n \in {7, 123456} }
    \cup { [top |-> 1, low |-> IntMax] }

\* the int that a variadic function reads from an unsigned argument
AsInt(u) == IF u.top = 0 THEN u.low ELSE u.low - IntMax - 1

RECURSIVE Zeros(_)
Zeros(n) == IF n <= 0 THEN <<>> ELSE <<"0">> \o Zeros(n - 1)

\* "%04i": at least four characters, sign included, padded with zeros
Pad04i(i) ==
    IF i < 0
    THEN <<"-">> \o Zeros(3 - Len(Dec(0 - i))) \o Dec(0 - i)
    ELSE Zeros(4 - Len(Dec(i))) \o Dec(i)

\* the characters of a format string
FormatChars(format) ==
    CASE format = "png" -> <<"p", "n", "g">>
      [] format = "ppm" -> <<"p", "p", "m">>
      [] OTHER          -> <<"g", "i", "f">>

\* char name[1024]
NameSize == 1024

\* snprintf writes at most size - 1 characters of the text
Truncate(text, size) ==
    IF Len(text) > size - 1 THEN SubSeq(text, 1, size - 1) ELSE text

\* snprintf(name, sizeof(name), "%s%04i.%s", root, indx, format)
ExportName(root, indx, format) ==
    Truncate(root \o Pad04i(AsInt(indx)) \o <<".">> \o FormatChars(format),
             NameSize)

\* a root with which the name does not fit in the buffer
LongRoot == [i \in 1..(NameSize - 4) |-> "a"]

Roots == { <<"r", "u", "n">> }


\* the directories that exist; the process starts in "work"
Dirs == {"work", "img"}

\* chdir(path): the return value is ignored by the code
chdir(path, cur) == IF path \in Dirs THEN path ELSE cur

\* getcwd: it succeeds, or fails and leaves the buffer as it was (empty),
\* or fails and leaves something in the buffer
GetcwdOutcomes == {"ok", "fail_empty", "fail_junk"}

\* the buffer cwd[1024] = { 0 } after getcwd
CwdBuffer(q, cur) ==
    CASE q = "ok"         -> cur
      [] q = "fail_empty" -> ""
      [] OTHER            -> "junk"

\* if ( PP.image_dir.length() ) { if ( getcwd(cwd, sizeof(cwd)) ) chdir(...); }
EnterExportDir(dir, q, cur) ==
    IF dir # ""
    THEN [buf |-> CwdBuffer(q, cur),
          cwd |-> IF q = "ok" THEN chdir(dir, cur) ELSE cur,
          query |-> q]
    ELSE [buf |-> "", cwd |-> cur, query |-> "none"]

\* if ( cwd[0] ) chdir(cwd);
LeaveExportDir(buf, cur) == IF buf # "" THEN chdir(buf, cur) ELSE cur

NoExport ==
    [op |-> "none", outcome |-> "none", root |-> <<>>,
     indx |-> [top |-> 0, low |-> 0], name |-> <<>>, dirSet |-> FALSE,
     query |-> "none", buf |-> "", entryDir |-> "", captureDir |-> "",
     ret |-> 0, dims |-> NoDims, redisplay |-> FALSE, count |-> 0,
     mag |-> 0, ds |-> 0]

\* error codes of SaveImage::saveImage
SaveErrs == {0, 1}

\* saveView(root, indx, verbose) with PP.downsample = ds, getcwd behaving as q
\* and SaveImage::saveImage returning err
saveView(root, indx, verbose, ds, q, err) ==
    /\ pc = "idle"
    /\ exp.outcome # "running"
    /\ exp.count < MaxExports
    /\ LET en == EnterExportDir(PP_image_dir, q, cwd)
       IN /\ exp' = [NoExport EXCEPT
                        !.op = "saveView", !.outcome = "returned",
                        !.count = exp.count + 1,
                        !.root = root, !.indx = indx,
                        !.name = ExportName(root, indx, PP_image_format),
                        !.dirSet = (PP_image_dir # ""),
                        !.query = en.query, !.buf = en.buf,
                        !.entryDir = cwd, !.captureDir = en.cwd,
                        !.ret = err,
                        !.dims = IF err = 0 /\ verbose > 0
                                 THEN <<view.width \div ds, view.height \div ds>>
                                 ELSE NoDims]
          /\ cwd' = LeaveExportDir(en.buf, en.cwd)
    /\ UNCHANGED <<styleVars, simVars, labelIn, confVars, dispVars, label, rep,
                   pc, call, PP_image_dir, PP_image_format, display_fresh,
                   scene>>

\* entry of saveViewMagnified(mag, root, indx, downsample): the name and the
\* change of directory
SVMI_Begin(mag, root, indx, ds, q) ==
    /\ pc = "idle"
    /\ mDisplay # NoDisplay
    /\ exp.outcome # "running"
    /\ exp.count < MaxExports
    /\ LET en == EnterExportDir(PP_image_dir, q, cwd)
       IN /\ exp' = [NoExport EXCEPT
                        !.op = "saveViewMagnified", !.outcome = "running",
                        !.count = exp.count + 1,
                        !.mag = mag, !.ds = ds,
                        !.root = root, !.indx = indx,
                        !.name = ExportName(root, indx, PP_image_format),
                        !.dirSet = (PP_image_dir # ""),
                        !.query = en.query, !.buf = en.buf,
                        !.entryDir = cwd, !.captureDir = en.cwd]
          /\ cwd' = en.cwd
    /\ pc' = "export"
    /\ UNCHANGED <<styleVars, simVars, labelIn, confVars, dispVars, label, rep,
                   call, PP_image_dir, PP_image_format, display_fresh, scene>>

\* int err = saveViewMagnified(mag, name, format, downsample): the entry of
\* the name-and-format overload, which waits in thread.lock() while the
\* worker holds the lock
SVMI_Call ==
    /\ SVM_Enter("export", exp.mag, PP_image_format, exp.ds)
    /\ UNCHANGED extVars

\* the name-and-format overload has returned or raised: if ( cwd[0] )
\* chdir(cwd); glApp::postRedisplay(); return err;
SVMI_End ==
    /\ pc = "idle"
    /\ exp.outcome = "running"
    /\ IF call.outcome = "raised"
       THEN \* the Exception leaves the overload as well
            /\ exp' = [exp EXCEPT !.outcome = "raised"]
            /\ cwd' = cwd
       ELSE /\ exp' = [exp EXCEPT !.outcome = "returned", !.ret = call.ret,
                                  !.dims = call.dims, !.redisplay = TRUE]
            /\ cwd' = LeaveExportDir(exp.buf, cwd)
    /\ UNCHANGED <<styleVars, simVars, labelIn, confVars, dispVars, label, rep,
                   pc, call, PP_image_dir, PP_image_format, display_fresh,
                   scene>>

----------------------------------------------------------------------------
(* Player::readDisplayString and Player::displayScene *)

NoScene ==
    [op |-> "none", outcome |-> "none", events |-> <<>>, readLog |-> FALSE,
     drawLog |-> FALSE, count |-> 0, scaled |-> 0, N0 |-> 0]

NoSize == <<0, 0>>

\* the text has no such key
NoKey == <<>>

\* what the configuration text does when it is read: the Glossary constructor
\* throws (glos); DP.read assigns the style id and the point value given by
\* the text (style, point, NoKey if the text has none) and then throws on a
\* later key (dp) or completes; view.read assigns the window size given by
\* the text (size, NoSize if the text has none) and then throws on a later
\* key (viewThrows) or completes
ReadOutcomes ==
    { [glos |-> TRUE,  dp |-> FALSE, style |-> NoKey, point |-> NoKey,
       size |-> NoSize, viewThrows |-> FALSE] }
    \cup
    { [glos |-> FALSE, dp |-> TRUE, style |-> NoKey, point |-> pt,
       size |-> NoSize, viewThrows |-> FALSE] : pt \in {NoKey, <<1>>} }
    \cup
    { [glos |-> FALSE, dp |-> FALSE, style |-> NoKey, point |-> NoKey,
       size |-> z, viewThrows |-> t] : z \in {NoSize, <<8, 6>>}, t \in BOOLEAN }
    \cup
    { [glos |-> FALSE, dp |-> FALSE, style |-> st, point |-> pt,
       size |-> NoSize, viewThrows |-> FALSE] :
        st \in {NoKey, <<2>>}, pt \in {NoKey, <<1>>} }

\* DisplayProp::read: the keys of the text are assigned to the fields of DP
DisplayProp_read(dp, o) ==
    [style |-> IF o.style = NoKey THEN dp.style ELSE o.style[1],
     point_value |-> IF o.point = NoKey THEN dp.point_value ELSE o.point[1]]

\* View::read: the keys of the text are assigned to the fields of the view
View_read(v, size) ==
    IF size = NoSize THEN v
    ELSE [v EXCEPT !.width = size[1], !.height = size[2]]

\* readDisplayString(view, str) with the display configuration dp when the
\* text behaves as o; logged: the catch block printed "Error while reading
\* simul:display"
readDisplayString(v, dp, o) ==
    IF o.glos
    THEN [view |-> v, dp |-> dp, logged |-> TRUE]
    ELSE LET dp1 == DisplayProp_read(dp, o)
             W   == v.width
             H   == v.height
             v1  == View_read(v, o.size)
         IN IF o.dp
            THEN \* view.read is not reached
                 [view |-> v, dp |-> dp1, logged |-> TRUE]
            ELSE IF o.viewThrows
                 THEN \* the two assignments after view.read are skipped
                      [view |-> v1, dp |-> dp1, logged |-> TRUE]
                 ELSE [view |-> [v1 EXCEPT !.width = W, !.height = H],
                       dp |-> dp1, logged |-> FALSE]

\* the fields of DP that the model tracks
CurrentDP == [style |-> DP_style, point_value |-> DP_point_value]

\* a call of readDisplayString by itself
ReadDisplayStringCall(o) ==
    /\ pc = "idle"
    /\ LET rd == readDisplayString(view, CurrentDP, o)
       IN /\ view' = rd.view
          /\ DP_style' = rd.dp.style
          /\ DP_point_value' = rd.dp.point_value
          /\ scene' = [scene EXCEPT !.op = "readDisplayString",
                                    !.readLog = rd.logged]
    /\ UNCHANGED <<mDisplay, attribDepth, styleCall, simVars, labelIn,
                   PP_report, spaces, pixelFactors, prepLog,
                   label, rep, pc, call, cwd, PP_image_dir, PP_image_format,
                   display_fresh, exp>>

\* displayScene(view, mag): the configuration text behaves as o, the options
\* parser as p, the report as r, the style's preparation throws iff s, the
\* draw throws iff d.  No lock is taken.
displayScene(mag, o, p, r, s, d) ==
    /\ pc = "idle"
    /\ mDisplay # NoDisplay
    /\ scene.count < MaxScenes
    /\ LET rd == IF display_fresh
                 THEN readDisplayString(view, CurrentDP, o)
                 ELSE [view |-> view, dp |-> CurrentDP, logged |-> FALSE]
           pd == prepareDisplay(rd.view, mag, rd.dp.point_value, p, r, s)
           sc == [scene EXCEPT !.op = "displayScene",
                               !.readLog = rd.logged,
                               !.count = @ + 1,
                               !.scaled = IF pd.view.zoomIns > rd.view.zoomIns
                                          THEN @ + 1 ELSE @]
       IN /\ display_fresh' = FALSE
          /\ DP_style' = rd.dp.style
          /\ DP_point_value' = rd.dp.point_value
          /\ label' = pd.label
          /\ rep' = pd.rep
          /\ pixelFactors' = pd.pixelFactors
          /\ prepLog' = pd.prepLog
          /\ IF pd.raised
             THEN \* the Exception of buildReport leaves displayScene
                  /\ view' = pd.view
                  /\ scene' = [sc EXCEPT !.outcome = "raised",
                                         !.events = <<"prepare">>,
                                         !.drawLog = FALSE]
             ELSE \* view.openDisplay(); displayCytosim(); view.closeDisplay();
                  /\ view' = [pd.view EXCEPT !.open = FALSE]
                  /\ scene' = [sc EXCEPT !.outcome = "returned",
                                         !.events = <<"prepare", "open",
                                                      "draw", "close">>,
                                         !.drawLog = d]
    /\ UNCHANGED <<mDisplay, attribDepth, styleCall, simVars, labelIn,
                   PP_report, spaces, pc, call, cwd,
                   PP_image_dir, PP_image_format, exp>>

\* a call of autoScale by itself
AutoScaleCall ==
    /\ pc = "idle"
    /\ view.auto_scale > 0 - MaxAuto
    /\ view' = autoScale(spaces, view)
    /\ scene' = [scene EXCEPT !.op = "autoScale"]
    /\ UNCHANGED <<styleVars, simVars, labelIn, confVars, pixelFactors, prepLog,
                   label, rep, pc, call, cwd, PP_image_dir, PP_image_format,
                   display_fresh, exp>>

\* a call of autoTrack by itself
AutoTrackCall ==
    /\ pc = "idle"
    /\ view' = autoTrack(view)
    /\ scene' = [scene EXCEPT !.op = "autoTrack"]
    /\ UNCHANGED <<styleVars, simVars, labelIn, confVars, pixelFactors, prepLog,
                   label, rep, pc, call, cwd, PP_image_dir, PP_image_format,
                   display_fresh, exp>>

----------------------------------------------------------------------------
(* Specifications *)

Handles ==
    { [exists |-> FALSE, attached |-> FALSE, force |-> 0],
      [exists |-> TRUE,  attached |-> FALSE, force |-> 0],
      [exists |-> TRUE,  attached |-> TRUE,  force |-> 1500] }

NewView(as, tf) ==
    [width |-> 5, height |-> 3, label |-> <<>>, message |-> <<>>,
     view_size |-> 10, zoomIns |-> 0, auto_scale |-> as, track_fibers |-> tf,
     focus |-> "origin", rotation |-> "identity", tracked |-> <<>>,
     open |-> FALSE]

\* the state after construction of the Player, before the first setStyle
InitCommon ==
    /\ mDisplay = NoDisplay
    /\ DP_style = 1
    /\ attribDepth = 0
    /\ styleCall = [pops |-> 0, pushes |-> 0, active |-> FALSE, id |-> 1]
    /\ lockOwner = "free"
    /\ simTime = 0
    /\ pixelFactors = [unit |-> "pixel", mag |-> 1]
    /\ prepLog = 0
    /\ label = <<>>
    /\ rep = NoReport
    /\ pc = "idle"
    /\ call = NoCall

\* nothing is exported and no frame is displayed
InitExt ==
    /\ cwd = "work"
    /\ PP_image_dir = ""
    /\ PP_image_format = "png"
    /\ display_fresh = FALSE
    /\ exp = NoExport
    /\ scene = NoScene

\* a session: styles are switched, labels and reports are composed while
\* the worker advances the simulation
Init ==
    /\ InitCommon
    /\ InitExt
    /\ handle \in {h \in Handles : ~ h.exists}
    /\ threadAlive = TRUE
    /\ goLive \in BOOLEAN
    /\ PP_period = 1
    /\ currentFrame = 0
    /\ PP_report = <<>>
    /\ DP_point_value = 0
    /\ spaces = {}
    /\ view = NewView(0, 0)

Next ==
    \/ \E style \in StyleIds : setStyle(style)
    \/ BuildLabelCall
    \/ \E arg \in ReportExprs, p \in ParseOutcomes, r \in ReportOutcomes :
          BuildReportCall(arg, p, r)
    \/ WorkerStep

Spec == Init /\ [][Next]_vars

\* what simul.report does during a capture: it throws, or writes a text
CaptureReportOutcomes ==
    { r \in ReportOutcomes : r.throws \/ r.text = <<"\n", "a">> }

\* captures: the style set at start-up by setStyle(1) is active, the worker
\* runs, magnified captures are taken
InitCapture ==
    /\ InitExt
    /\ mDisplay = StyleVariant(1)
    /\ DP_style = 1
    /\ attribDepth = 1
    /\ styleCall = [pops |-> 0, pushes |-> 1, active |-> FALSE, id |-> 1]
    /\ lockOwner = "free"
    /\ simTime = 0
    /\ pixelFactors = [unit |-> "pixel", mag |-> 1]
    /\ prepLog = 0
    /\ label = <<>>
    /\ rep = NoReport
    /\ pc = "idle"
    /\ call = NoCall
    /\ handle \in {h \in Handles : ~ h.exists}
    /\ threadAlive = TRUE
    /\ goLive = TRUE
    /\ PP_period = 1
    /\ currentFrame = 0
    /\ PP_report \in ReportExprs
    /\ DP_point_value = 0
    /\ spaces = {2, 3}
    /\ view \in {NewView(as, 0) : as \in {0, 1}}

NextCapture ==
    \/ WorkerStep
    \/ \E mag \in 1..MaxMag, f \in Formats, ds \in 1..MaxDown :
          SVM_Begin(mag, f, ds)
    \/ \E p \in ParseOutcomes, r \in CaptureReportOutcomes, s \in BOOLEAN :
          SVM_Prepare(p, r, s)
    \/ SVM_Draw
    \/ \E err \in DirectErrs : SVM_DirectDone(err)
    \/ \E err \in CompositeErrs : SVM_CompositeDone(err)

SpecCapture == InitCapture /\ [][NextCapture]_vars

\* camera automation over every tracking flag, every counter value and
\* every set of space extensions
InitScale ==
    /\ InitCommon
    /\ cwd = "work"
    /\ PP_image_dir = ""
    /\ PP_image_format = "png"
    /\ display_fresh = FALSE
    /\ exp = NoExport
    /\ handle \in {h \in Handles : ~ h.exists}
    /\ threadAlive = FALSE
    /\ goLive = FALSE
    /\ PP_period = 1
    /\ currentFrame = 0
    /\ PP_report = <<>>
    /\ DP_point_value = 0
    /\ spaces \in SUBSET ((0 - 1)..MaxExt)
    /\ view \in {NewView(as, tf) : as \in 0..MaxAuto, tf \in 0..7}
    /\ scene = [NoScene EXCEPT !.N0 = view.auto_scale]

NextScale ==
    \/ AutoScaleCall
    \/ AutoTrackCall

SpecScale == InitScale /\ [][NextScale]_vars

\* frames: the style set at start-up is active, scenes are displayed at
\* magnification 1 and the display string is read
InitFrames ==
    /\ mDisplay = StyleVariant(1)
    /\ DP_style = 1
    /\ attribDepth = 1
    /\ styleCall = [pops |-> 0, pushes |-> 1, active |-> FALSE, id |-> 1]
    /\ lockOwner = "free"
    /\ simTime = 0
    /\ pixelFactors = [unit |-> "pixel", mag |-> 1]
    /\ prepLog = 0
    /\ label = <<>>
    /\ rep = NoReport
    /\ pc = "idle"
    /\ call = NoCall
    /\ cwd = "work"
    /\ PP_image_dir = ""
    /\ PP_image_format = "png"
    /\ display_fresh \in BOOLEAN
    /\ exp = NoExport
    /\ handle \in {h \in Handles : ~ h.exists}
    /\ threadAlive = TRUE
    /\ goLive = TRUE
    /\ PP_period = 1
    /\ currentFrame = 0
    /\ PP_report \in {e \in ReportExprs : e = <<>> \/ Find(e, " ") # 0}
    /\ DP_point_value = 0
    /\ spaces \in {{}, {0}, {1, MaxExt}}
    /\ view \in {NewView(as, 7) : as \in 0..MaxAuto}
    /\ scene = [NoScene EXCEPT !.N0 = view.auto_scale]

\* the text is read by displayScene only when simul.prop->display_fresh
FrameReadOutcomes(fresh) ==
    IF fresh THEN ReadOutcomes ELSE {o \in ReadOutcomes : o.glos}

NextFrames ==
    \/ \E o \in FrameReadOutcomes(display_fresh), p \in ParseOutcomes,
          r \in CaptureReportOutcomes, s \in BOOLEAN, d \in BOOLEAN :
          displayScene(1, o, p, r, s, d)
    \/ \E o \in ReadOutcomes : ReadDisplayStringCall(o)

SpecFrames == InitFrames /\ [][NextFrames]_vars

\* exports: the style set at start-up is active, images are exported by
\* root and index, at the size of the window or magnified; the lock is free,
\* or still held by the render thread after a capture whose preparation raised
InitExport ==
    /\ mDisplay = StyleVariant(1)
    /\ DP_style = 1
    /\ attribDepth = 1
    /\ styleCall = [pops |-> 0, pushes |-> 1, active |-> FALSE, id |-> 1]
    /\ lockOwner \in {"free", "render"}
    /\ simTime = 0
    /\ pixelFactors = [unit |-> "pixel", mag |-> 1]
    /\ prepLog = 0
    /\ label = <<>>
    /\ rep = NoReport
    /\ pc = "idle"
    /\ call = NoCall
    /\ cwd = "work"
    /\ PP_image_dir \in {"", "img"}
    /\ PP_image_format \in {"png", "gif"}
    /\ display_fresh = FALSE
    /\ exp = NoExport
    /\ scene = NoScene
    /\ handle \in {h \in Handles : ~ h.exists}
    /\ threadAlive = TRUE
    /\ goLive = TRUE
    /\ PP_period = 1
    /\ currentFrame = 0
    /\ PP_report \in {e \in ReportExprs : e = <<>> \/ Find(e, " ") # 0}
    /\ DP_point_value = 0
    /\ spaces = {}
    /\ view = NewView(0, 0)

\* getcwd is called only when an export directory is configured
Queries(dir) == IF dir # "" THEN GetcwdOutcomes ELSE {"ok"}

\* during exports the report succeeds and the style's preparation does not
\* throw; the options parser may throw
ExportReportOutcomes == { r \in CaptureReportOutcomes : ~ r.throws }

\* root, index, downsample factor and getcwd outcome of an export: every
\* combination with the short root, one combination with the long root
ExportInputs(dir) ==
    (Roots \X Indexes \X (1..MaxDown) \X Queries(dir))
    \cup { <<LongRoot, [top |-> 0, low |-> 7], 1, "ok">> }

NextExport ==
    \/ \E x \in ExportInputs(PP_image_dir), verbose \in {0, 1},
          err \in SaveErrs :
          saveView(x[1], x[2], verbose, x[3], x[4], err)
    \/ \E mag \in 1..MaxMag, x \in ExportInputs(PP_image_dir) :
          SVMI_Begin(mag, x[1], x[2], x[3], x[4])
    \/ SVMI_Call
    \/ \E p \in ParseOutcomes, r \in ExportReportOutcomes :
          SVM_Prepare(p, r, FALSE)
    \/ SVM_Draw
    \/ \E err \in DirectErrs : SVM_DirectDone(err)
    \/ \E err \in CompositeErrs : SVM_CompositeDone(err)
    \/ SVMI_End

SpecExport == InitExport /\ [][NextExport]_vars

\* label composition over every combination of its inputs
InitLabel ==
    /\ InitCommon
    /\ InitExt
    /\ handle \in Handles
    /\ threadAlive \in BOOLEAN
    /\ goLive \in BOOLEAN
    /\ PP_period \in 0..MaxPeriod
    /\ currentFrame \in (0 - 1)..MaxFrame
    /\ PP_report = <<>>
    /\ DP_point_value = 0
    /\ spaces = {}
    /\ view = NewView(0, 0)

NextLabel == BuildLabelCall

SpecLabel == InitLabel /\ [][NextLabel]_vars

----------------------------------------------------------------------------
(* Properties *)

Capturing == pc \in {"prepare", "direct", "composite"}

\* C1: during one saveViewMagnified call with a supported format the worker's
\* lock, taken once, is held by the render thread through the preparation and
\* every draw-callback invocation of both capture passes and is not released
\* in between, so every draw of the call reads the same simulation state.
C1_SingleSnapshot ==
    /\ Capturing => /\ lockOwner = "render"
                    /\ call.locks = 1
                    /\ call.unlocks = 0
    /\ Cardinality(call.seen) <= 1

\* both passes have drawn while the worker still had steps to take
C1_Witness ==
    /\ pc = "composite"
    /\ call.draws > call.passDraws
    /\ call.passDraws >= 1
    /\ simTime > 0
    /\ simTime < MaxTime

\* C2: every saveViewMagnified call that acquires the worker's lock releases
\* it exactly once before control leaves the call, on every exit path; after
\* any sequence of captures the render thread does not hold the lock.
C2_LockReleasedOnExit ==
    pc = "idle" =>
        /\ lockOwner = "free"
        /\ call.unlocks = call.locks

\* C3: a format rejected by SaveImage::supported makes saveViewMagnified
\* return a negative result without locking, preparing, opening the render
\* target or drawing.
C3_UnsupportedFormat ==
    (call.outcome # "none" /\ ~ supported(call.format)) =>
        /\ call.outcome = "returned"
        /\ call.ret < 0
        /\ call.locks = 0
        /\ call.unlocks = 0
        /\ ~ call.prepared
        /\ call.opened = 0
        /\ call.draws = 0
        /\ ~ call.directTried
        /\ ~ call.compTried

\* a rejected call made while the lock was free and the worker had run
C3_Witness ==
    /\ call.outcome = "returned"
    /\ call.format = "gif"
    /\ call.ret = 0 - 1
    /\ lockOwner = "free"
    /\ simTime > 0

\* C4: the direct capture is attempted first, the composite capture is
\* attempted iff the direct one reported a failure; the call returns 0 exactly
\* when the direct capture succeeded or the composite one did after a direct
\* failure, and otherwise returns the composite capture's nonzero code.
C4_Fallback ==
    /\ call.compTried => (call.directTried /\ call.directErr # 0)
    /\ (call.outcome = "returned" /\ supported(call.format)) =>
          /\ call.directTried
          /\ call.compTried <=> (call.directErr # 0)
          /\ (call.ret = 0) <=>
                (call.directErr = 0 \/ (call.compTried /\ call.compErr = 0))
          /\ (call.ret # 0) => (call.compTried /\ call.ret = call.compErr)

\* both captures failed and the composite's code came back
C4_Witness ==
    /\ call.outcome = "returned"
    /\ call.directErr = 1
    /\ call.compTried
    /\ call.compErr = 2
    /\ call.ret = 2

\* C5: for the same viewport, magnification and downsample factor, the direct
\* and the composite path report images of the same final pixel dimensions,
\* mag*W/downsample by mag*H/downsample.
C5_SameDimensions ==
    (call.outcome = "returned" /\ call.ret = 0 /\ supported(call.format)) =>
        call.dims = <<(call.mag * call.W) \div call.ds,
                      (call.mag * call.H) \div call.ds>>

\* C6: after at least one setStyle call one style is active and exactly one
\* push made by setStyle is outstanding; every call pushes once and pops once
\* before that push iff a style was active on entry.
C6_PushPopBalance ==
    /\ attribDepth \in {0, 1}
    /\ (attribDepth = 1) <=> (mDisplay # NoDisplay)
    /\ styleCall.pushes >= 1 =>
          /\ mDisplay # NoDisplay
          /\ attribDepth = 1
          /\ styleCall.pushes = 1
          /\ styleCall.pops = (IF styleCall.active THEN 1 ELSE 0)

\* a setStyle call that replaced an active style
C6_Witness ==
    /\ styleCall.active
    /\ styleCall.pops = 1
    /\ styleCall.pushes = 1
    /\ attribDepth = 1

\* C7: every style id outside {1,2,3} constructs the variant that id 1
\* constructs; ids 1, 2 and 3 construct three distinct variants.
C7_DefaultVariant ==
    mDisplay # NoDisplay =>
        /\ DP_style \notin {1, 2, 3} => mDisplay = "Display1"
        /\ DP_style = 1 => mDisplay = "Display1"
        /\ DP_style = 2 => mDisplay = "Display2"
        /\ DP_style = 3 => mDisplay = "Display3"

\* setStyle was called with a negative id
C7_Witness ==
    /\ DP_style < 0
    /\ mDisplay = "Display1"
    /\ styleCall.pushes = 1

EndsWith(text, tail) ==
    /\ Len(text) >= Len(tail)
    /\ SubSeq(text, Len(text) - Len(tail) + 1, Len(text)) = tail

\* C8: the label contains exactly one of "Live" and "Frame": "Live" when the
\* worker is alive and playback is live, followed by the period only when it
\* exceeds 1, and "Frame <frame index>" in every other case.
C8_LiveOrFrame ==
    label # <<>> =>
        /\ Contains(label, StrLive) # Contains(label, StrFrame)
        /\ Contains(label, StrLive) <=> (threadAlive /\ goLive)
        /\ (threadAlive /\ goLive /\ PP_period > 1) =>
              EndsWith(label, <<"\n", "L", "i", "v", "e", " ">> \o Dec(PP_period))
        /\ (threadAlive /\ goLive /\ PP_period <= 1) =>
              EndsWith(label, <<"\n", "L", "i", "v", "e">>)
        /\ ~ (threadAlive /\ goLive) =>
              EndsWith(label, <<"\n", "F", "r", "a", "m", "e", " ">>
                              \o DecInt(currentFrame))

\* a live label with a period, built while a handle is attached
C8_Witness ==
    /\ label = <<" ", " ", " ", "0", ".", "0", "0", "0", "s",
                 "\n", "H", "a", "n", "d", "l", "e", ":", " ",
                 "1", ".", "5", "0", "0", "p", "N",
                 "\n", "L", "i", "v", "e", " ", "2">>
    /\ threadAlive /\ goLive /\ PP_period = 2

\* C9: buildReport with the empty expression returns the empty string without
\* invoking the configuration parser or the simulation's report, and leaves
\* the simulation state unchanged.
C9_EmptyReport ==
    /\ [](rep.outcome # "none" /\ rep.arg = <<>> =>
            /\ rep.outcome = "returned"
            /\ rep.text = <<>>
            /\ ~ rep.parsed
            /\ ~ rep.reported)
    /\ [][(rep' # rep /\ rep'.arg = <<>>) => simTime' = simTime]_vars

\* the empty expression was reported after the worker had advanced the
\* simulation
C9_Witness ==
    /\ rep.outcome = "returned"
    /\ rep.arg = <<>>
    /\ simTime > 0

\* C10: for a non-empty expression, a failure of the options parser or of the
\* report never leaves buildReport: the call returns the failure description.
C10_FailureReturned ==
    (rep.arg # <<>> /\ rep.failed) =>
        /\ rep.outcome = "returned"
        /\ rep.text = rep.failure

\* C11: autoScale leaves the view's size and auto-scale counter unchanged
\* when no space has a positive extension; when the maximum extension R is
\* positive the size becomes 2R and the counter decreases by exactly 1.
C11_AutoScale ==
    [][scene'.op = "autoScale" =>
          /\ (\A e \in spaces : e <= 0) =>
                /\ view'.view_size = view.view_size
                /\ view'.auto_scale = view.auto_scale
          /\ \A R \in spaces :
                (R > 0 /\ \A e \in spaces : e <= R) =>
                    /\ view'.view_size = 2 * R
                    /\ view'.auto_scale = view.auto_scale - 1]_vars

\* autoScale has set the size from a maximum extension of 2 among several
C11_Witness ==
    /\ scene.op = "autoScale"
    /\ spaces = {0 - 1, 1, 2}
    /\ view.view_size = 4
    /\ view.auto_scale = scene.N0 - 1

\* C18: autoTrack evaluates bits 1, 2, 4 in that order, each action firing
\* iff its bit is set; with bit 4 set the rotation after the call is the
\* conjugate of the orientation of the moment matrix whatever bit 2 did, and
\* the recentering of bit 1 does not depend on bits 2 and 4.
C18_TrackOrder ==
    scene.op = "autoTrack" =>
        LET tf == view.track_fibers
            b1 == tf % 2 = 1
            b2 == (tf \div 2) % 2 = 1
            b4 == (tf \div 4) % 2 = 1
        IN /\ view.tracked =
                  (IF b1 THEN <<"recenter">> ELSE <<>>) \o
                  (IF b2 THEN <<"align">> ELSE <<>>) \o
                  (IF b4 THEN <<"rotate">> ELSE <<>>)
           /\ b4 => view.rotation = "conjugate(moments)"
           /\ (b2 /\ ~ b4) => view.rotation = "aligned(nematic)"
           /\ (~ b2 /\ ~ b4) => view.rotation = "identity"
           /\ view.focus = (IF b1 THEN "centroid" ELSE "origin")

\* all three bits set: the alignment fired and the rotation overwrote it
C18_Witness ==
    /\ scene.op = "autoTrack"
    /\ view.track_fibers = 7
    /\ view.tracked = <<"recenter", "align", "rotate">>
    /\ view.rotation = "conjugate(moments)"
    /\ view.focus = "centroid"

\* C15: no failure of the preparation or of the draw leaves displayScene and
\* the frame is presented: the render target is opened, the draw is issued
\* and the render target is closed, once each and in that order.
C15_FramePresented ==
    scene.outcome # "none" =>
        /\ scene.outcome = "returned"
        /\ scene.events = <<"prepare", "open", "draw", "close">>

\* C16: after readDisplayString the view's window width and height are the
\* ones it had before the call, also when reading or applying the text
\* fails part-way.
C16_WindowSizeKept ==
    [][scene'.op = "readDisplayString" =>
          /\ view'.width = view.width
          /\ view'.height = view.height]_vars

\* C17: over any sequence of frame preparations on a view whose counter
\* starts at N >= 0 the counter never becomes negative, auto-scale changes
\* the size in at most N frames, once the counter is 0 auto-scale changes the
\* size no more, and with a positive maximum extension in every frame the
\* counter is 0 after exactly N frames.
C17_CounterRunsOut ==
    /\ [](/\ view.auto_scale >= 0
          /\ scene.scaled <= scene.N0
          /\ (\E e \in spaces : e > 0) =>
                view.auto_scale = (IF scene.count < scene.N0
                                   THEN scene.N0 - scene.count ELSE 0))
    /\ [][view.auto_scale = 0 => view'.view_size = view.view_size]_vars

\* the counter ran out after two frames and a third frame was displayed
C17_Witness ==
    /\ scene.N0 = 2
    /\ scene.count = 3
    /\ scene.scaled = 2
    /\ view.auto_scale = 0
    /\ view.view_size = 2 * MaxExt

----------------------------------------------------------------------------
(* Exports by root and index *)

DigitVal(c) == CHOOSE d \in 0..9 : Digit(d) = c

\* the decimal text of the sum of two decimal texts and a carry
RECURSIVE AddDec(_, _, _)
AddDec(a, b, carry) ==
    IF a = <<>> /\ b = <<>>
    THEN IF carry = 0 THEN <<>> ELSE <<Digit(carry)>>
    ELSE LET da == IF a = <<>> THEN 0 ELSE DigitVal(a[Len(a)])
             db == IF b = <<>> THEN 0 ELSE DigitVal(b[Len(b)])
             ra == IF a = <<>> THEN <<>> ELSE SubSeq(a, 1, Len(a) - 1)
             rb == IF b = <<>> THEN <<>> ELSE SubSeq(b, 1, Len(b) - 1)
             sum == da + db + carry
         IN AddDec(ra, rb, sum \div 10) \o <<Digit(sum % 10)>>

\* the decimal text of an unsigned index
UnsignedDec(u) ==
    IF u.top = 0 THEN Dec(u.low) ELSE AddDec(Dec(u.low), Dec(IntMax), 1)

\* C12: the name of an exported image is the root, the decimal index padded
\* with zeros to at least four digits, a dot and the format; saveView and the
\* root-and-index saveViewMagnified build it the same way
C12_ExportName ==
    exp.op # "none" =>
        exp.name = exp.root
                   \o Zeros(4 - Len(UnsignedDec(exp.indx)))
                   \o UnsignedDec(exp.indx)
                   \o <<".">> \o FormatChars(PP_image_format)

\* C13: with an export directory configured and the query of the working
\* directory successful, the export runs in the export directory and the
\* working directory is afterwards the one at entry; with no export directory
\* the working directory is never changed
C13_DirectoryRestored ==
    /\ (exp.outcome \in {"returned", "raised"} /\ exp.dirSet /\ exp.query = "ok")
           => (exp.captureDir = PP_image_dir /\ cwd = exp.entryDir)
    /\ (exp.op # "none" /\ ~ exp.dirSet)
           => (exp.captureDir = exp.entryDir /\ cwd = exp.entryDir)

\* C14: when an export directory is configured and the query of the working
\* directory fails, the export still runs in the export directory, and the
\* export directory is the working directory after the call
C14_QueryFails ==
    (exp.outcome \in {"returned", "raised"} /\ exp.dirSet /\ exp.query # "ok")
        => (exp.captureDir = PP_image_dir /\ cwd = PP_image_dir)

\* C19: for a non-empty expression whose report succeeds, the text returned is
\* the report text without its first character when that is a newline, the
\* single-newline text included, and the report text itself otherwise
C19_LeadingNewline ==
    (rep.outcome = "returned" /\ rep.arg # <<>> /\ ~ rep.failed) =>
        rep.text = IF rep.raw # <<>> /\ rep.raw[1] = "\n"
                   THEN Tail(rep.raw)
                   ELSE rep.raw

\* C20: the recorded style id is 1 whenever the default variant is active, 2
\* for the second variant and 3 for the third
C20_RecordedStyle ==
    /\ mDisplay = "Display1" => DP_style = 1
    /\ mDisplay = "Display2" => DP_style = 2
    /\ mDisplay = "Display3" => DP_style = 3

====
